---- MODULE Spec2Model ----
(***************************************************************************)
(* Casino++ Blackjack (Blackjack.cpp, Hand, Card): the console game as a   *)
(* state machine.  One action per prompt, card draw and resolution of      *)
(* Blackjack::launchGame / playRound / concludeRound.                      *)
(*                                                                         *)
(* Money: playerMoney, thisRoundBet and shownBalance are C++ doubles that  *)
(* only ever hold multiples of 0.5; the model stores them in HALF units    *)
(* (the integer 2 * amount), so 10 is stored as 20 and "bet * 1.5" is      *)
(* (3 * bet) \div 2 on an even number.                                     *)
(*                                                                         *)
(* Strings: a std::string is a sequence of one-character strings, so that  *)
(* std::string's lexicographic operator<, isdigit, to_string and stoi are  *)
(* computed character by character.  Card symbols are only ever compared   *)
(* for equality and are kept as plain strings.                             *)
(***************************************************************************)
EXTENDS Integers, Sequences, FiniteSets, TLC

VARIABLES
    pc,               \* where the program waits or what it executes next
    playerMoney,      \* Blackjack::playerMoney (half units)
    thisRoundBet,     \* Blackjack::thisRoundBet (half units)
    playerHand,       \* Blackjack::playerHand.cardsInHand
    dealerHand,       \* Blackjack::dealerHand.cardsInHand
    playerWon,        \* concludeRound's local of the last resolution
    dealerWon,        \* concludeRound's local of the last resolution
    wonWithBlackjack, \* concludeRound's local of the last resolution
    notDefined,       \* cerr "Not defined who won, check code" was printed
    resultShown,      \* which result text concludeRound printed last
    shownBalance,     \* "YOUR BALANCE:" printed when the bet was requested
    userInput,        \* the token held by the prompt loop that is waiting
    roundsPlayed,     \* number of playRound calls so far
    cardObject,       \* the Card object held by a caller of the Card / Hand classes
    call              \* the last member function of Card / Hand such a caller called

vars == <<pc, playerMoney, thisRoundBet, playerHand, dealerHand, playerWon,
          dealerWon, wonWithBlackjack, notDefined, resultShown, shownBalance,
          userInput, roundsPlayed, cardObject, call>>

(***************************************************************************)
(* Bounds of the model.                                                    *)
(***************************************************************************)
\* playRound is entered at most this many times in one behaviour
MaxRounds == 2
\* the player is offered a hit only while holding fewer cards than this
MaxPlayerCards == 4
\* longest hand handed to concludeRound by the resolution fixture
MaxFixtureCards == 3
\* longest player hand over all thirteen face values handed to concludeRound
MaxHandCards == 3
\* longest hand built by a caller of the Hand class on its own
MaxCallerCards == 2
\* printHorizontal's row loop is followed for this many of its first rows
\* and this many of its last rows
MaxPrintRows == 2

\* The values of rand() the model draws: rand() % 13 + 1 gives the face
\* values A, 9, K and rand() % 4 gives hearts.
RandSample == {0, 8, 12}

\* The values of rand() behind the cards of the resolution fixture: the face
\* values A, 5, 9, K, all hearts.
FixtureSample == {0, 4, 8, 12}

\* All thirteen values of rand() % 13: the face values A, 2..10, J, Q, K.
RankSample == 0..12

\* The values of rand() behind the dealer's cards in the dealer-loop
\* specification: the face values A and 2..10, one face value per game value.
DealerSample == 0..9

\* The tokens typed at the bet prompt.
BetInputs ==
    { <<"0">>, <<"1">>, <<"1", "1">>, <<"-", "5">>,
      <<"a", "b", "c">>,
      <<"9", "9", "9", "9", "9", "9", "9", "9", "9", "9", "9">> }

\* The tokens typed at the start-or-quit prompts.
MenuInputs == { <<"s">>, <<"S">>, <<"q">>, <<"Q">>, <<"x">> }

\* The tokens typed at the hit-or-stand prompt.
HitStandInputs == { <<"h">>, <<"H">>, <<"s">>, <<"S">>, <<"q">> }

(***************************************************************************)
(* Program constants.                                                      *)
(***************************************************************************)
MONEY_AT_START == 10
INT_MAX == 2147483647
MAX_CARDS_PER_PRINT_ROW == 6

(***************************************************************************)
(* std::string helpers.                                                    *)
(***************************************************************************)
Ascii ==
    ("-" :> 45) @@
    ("0" :> 48) @@ ("1" :> 49) @@ ("2" :> 50) @@ ("3" :> 51) @@ ("4" :> 52) @@
    ("5" :> 53) @@ ("6" :> 54) @@ ("7" :> 55) @@ ("8" :> 56) @@ ("9" :> 57) @@
    ("A" :> 65) @@ ("B" :> 66) @@ ("H" :> 72) @@ ("J" :> 74) @@ ("K" :> 75) @@
    ("Q" :> 81) @@ ("S" :> 83) @@
    ("a" :> 97) @@ ("b" :> 98) @@ ("c" :> 99) @@ ("h" :> 104) @@
    ("q" :> 113) @@ ("s" :> 115) @@ ("x" :> 120)

isdigit(c) == Ascii[c] >= 48 /\ Ascii[c] <= 57

\* std::string operator< : lexicographic on the character codes
RECURSIVE StrLess(_, _)
StrLess(a, b) ==
    IF b = <<>> THEN FALSE
    ELSE IF a = <<>> THEN TRUE
    ELSE IF Ascii[Head(a)] < Ascii[Head(b)] THEN TRUE
    ELSE IF Ascii[Head(a)] > Ascii[Head(b)] THEN FALSE
    ELSE StrLess(Tail(a), Tail(b))

\* std::to_string of a non-negative int
RECURSIVE to_string(_)
to_string(n) ==
    LET digit == <<"0", "1", "2", "3", "4", "5", "6", "7", "8", "9">>[(n % 10) + 1]
    IN  IF n < 10 THEN <<digit>> ELSE to_string(n \div 10) \o <<digit>>

\* std::stoi on a string that starts with a digit: the value of the leading
\* digits, or -1 when it does not fit an int (stoi throws std::out_of_range)
RECURSIVE StoiFrom(_, _)
StoiFrom(s, acc) ==
    IF s = <<>> \/ ~isdigit(Head(s)) THEN acc
    ELSE LET d == Ascii[Head(s)] - 48
         IN  IF acc > (INT_MAX - d) \div 10 THEN -1
             ELSE StoiFrom(Tail(s), acc * 10 + d)

stoi(s) == StoiFrom(s, 0)

(***************************************************************************)
(* Card.                                                                   *)
(***************************************************************************)
\* a Card variable no constructor has run for yet: two empty strings
NoCard == [faceValueString |-> <<>>, symbolString |-> ""]

\* no member function called yet
NoCall == [op |-> "none", faceValue |-> <<>>, symbol |-> "", index |-> 0]

\* faulty variant: rand() % 13 without the + 1
generateRandomCardValueString_NoOffset(r) ==
    LET randomValue == r % 13
    IN  IF randomValue = 1 THEN <<"A">>
        ELSE IF randomValue = 11 THEN <<"J">>
        ELSE IF randomValue = 12 THEN <<"Q">>
        ELSE IF randomValue = 13 THEN <<"K">>
        ELSE to_string(randomValue)

generateRandomCardValueString(r) ==
    LET randomValue == (r % 13) + 1
    IN  IF randomValue = 1 THEN <<"A">>
        ELSE IF randomValue = 11 THEN <<"J">>
        ELSE IF randomValue = 12 THEN <<"Q">>
        ELSE IF randomValue = 13 THEN <<"K">>
        ELSE to_string(randomValue)

generateRandomCardSymbolString(r) ==
    LET randomNumber == r % 4
    IN  IF randomNumber = 0 THEN "hearts"
        ELSE IF randomNumber = 2 THEN "diamonds"
        ELSE IF randomNumber = 3 THEN "clubs"
        ELSE "spades"

\* TRUE when the check prints its error and calls exit(-1).  The operands of
\* < and > are std::strings; && binds tighter than ||.
errorCheckCardValue(faceValueStringToCheck) ==
    \/ StrLess(faceValueStringToCheck, <<"2">>)
    \/ /\ StrLess(<<"9">>, faceValueStringToCheck)
       /\ faceValueStringToCheck # <<"1", "0">> /\ faceValueStringToCheck # <<"J">>
       /\ faceValueStringToCheck # <<"Q">> /\ faceValueStringToCheck # <<"K">>
       /\ faceValueStringToCheck # <<"A">>

\* TRUE when the check prints its error and calls exit(-1)
errorCheckCardSymbol(symbolString) ==
    /\ symbolString # "hearts" /\ symbolString # "diamonds"
    /\ symbolString # "clubs" /\ symbolString # "spades"

\* Card::Card(): two calls of rand()
RandomCard(r1, r2) ==
    [faceValueString |-> generateRandomCardValueString(r1),
     symbolString |-> generateRandomCardSymbolString(r2)]

\* faulty variant: getGameValue returning 1 for an Ace
getGameValue_AceLow(card) ==
    LET f == card.faceValueString
    IN  IF ~StrLess(f, <<"2">>) /\ ~StrLess(<<"9">>, f) THEN stoi(f)
        ELSE IF f = <<"1", "0">> \/ f = <<"J">> \/ f = <<"Q">> \/ f = <<"K">> THEN 10
        ELSE IF f = <<"A">> THEN 1
        ELSE 0

\* faulty variant: getGameValue without the comparison with "10"
getGameValue_TenUnmatched(card) ==
    LET f == card.faceValueString
    IN  IF ~StrLess(f, <<"2">>) /\ ~StrLess(<<"9">>, f) THEN stoi(f)
        ELSE IF f = <<"J">> \/ f = <<"Q">> \/ f = <<"K">> THEN 10
        ELSE IF f = <<"A">> THEN 11
        ELSE 0

getGameValue(card) ==
    LET f == card.faceValueString
    IN  IF ~StrLess(f, <<"2">>) /\ ~StrLess(<<"9">>, f) THEN stoi(f)
        ELSE IF f = <<"1", "0">> \/ f = <<"J">> \/ f = <<"Q">> \/ f = <<"K">> THEN 10
        ELSE IF f = <<"A">> THEN 11
        ELSE 0

isAce(card) == card.faceValueString = <<"A">>

(***************************************************************************)
(* Blackjack::sumOptimal.                                                  *)
(***************************************************************************)
RECURSIVE SumGameValues(_)
SumGameValues(hand) ==
    IF hand = <<>> THEN 0 ELSE getGameValue(Head(hand)) + SumGameValues(Tail(hand))

\* faulty variant: only the Aces ahead of the first other card are counted
RECURSIVE CountAces_LeadingOnly(_)
CountAces_LeadingOnly(hand) ==
    IF hand = <<>> \/ ~isAce(Head(hand)) THEN 0
    ELSE 1 + CountAces_LeadingOnly(Tail(hand))

RECURSIVE CountAces(_)
CountAces(hand) ==
    IF hand = <<>> THEN 0
    ELSE (IF isAce(Head(hand)) THEN 1 ELSE 0) + CountAces(Tail(hand))

\* faulty variant: the reduction of the sum by 10 is done at most once
ReduceAces_Once(sum, numberOfAcesInHand) ==
    IF sum > 21 /\ numberOfAcesInHand > 0 THEN sum - 10 ELSE sum

RECURSIVE ReduceAces(_, _)
ReduceAces(sum, numberOfAcesInHand) ==
    IF sum > 21 /\ numberOfAcesInHand > 0
    THEN ReduceAces(sum - 10, numberOfAcesInHand - 1)
    ELSE sum

\* faulty variant: every Ace is counted as 1, whatever the sum
sumOptimal_AcesLow(hand) == SumGameValues(hand) - 10 * CountAces(hand)

sumOptimal(hand) == ReduceAces(SumGameValues(hand), CountAces(hand))

(***************************************************************************)
(* Blackjack::requestBetAmount: what one pass of the prompt loop decides   *)
(* for the token betStr with the balance money (half units).               *)
(***************************************************************************)
RECURSIVE inputIsNumerical(_)
inputIsNumerical(betStr) ==
    IF betStr = <<>> THEN TRUE
    ELSE IF ~isdigit(Head(betStr)) THEN FALSE
    ELSE inputIsNumerical(Tail(betStr))

\* faulty variant: requestBetAmount without its "not enough money" test
CheckBet_NoFundsCheck(betStr, money) ==
    IF ~inputIsNumerical(betStr) THEN "notNumerical"
    ELSE LET bet == stoi(betStr)
         IN  IF bet = -1 THEN "outOfRange"
             ELSE IF bet < 1 THEN "belowMinimum"
             ELSE "accepted"

\* faulty variant: requestBetAmount without its "below the minimum bet" test
CheckBet_NoMinimum(betStr, money) ==
    IF ~inputIsNumerical(betStr) THEN "notNumerical"
    ELSE LET bet == stoi(betStr)
         IN  IF bet = -1 THEN "outOfRange"
             ELSE IF 2 * bet > money THEN "notEnough"
             ELSE "accepted"

CheckBet(betStr, money) ==
    IF ~inputIsNumerical(betStr) THEN "notNumerical"
    ELSE LET bet == stoi(betStr)
         IN  IF bet = -1 THEN "outOfRange"
             ELSE IF bet < 1 THEN "belowMinimum"
             ELSE IF 2 * bet > money THEN "notEnough"
             ELSE "accepted"

(***************************************************************************)
(* Blackjack::payout.  factor2 is twice the C++ factor (3 for 1.5, 2 for   *)
(* 1); money and bet are in half units.                                    *)
(***************************************************************************)
\* faulty variant: payout that adds the winnings but not the stake
payout_WinningsOnly(money, bet, factor2) == money + (bet * factor2) \div 2

payout(money, bet, factor2) == money + (bet * factor2) \div 2 + bet

(***************************************************************************)
(* Blackjack::concludeRound, the decision chain over the two sums and the  *)
(* two hand sizes.                                                         *)
(***************************************************************************)
Verdict(p, d, b, n) ==
    [playerWon |-> p, dealerWon |-> d, wonWithBlackjack |-> b, notDefined |-> n]

\* faulty variant: lines 119-143 without the last tie branch
DecideOn21OrTie_NoTie(playerSum, dealerSum, playerSize, dealerSize) ==
    IF playerSum = 21 /\ dealerSum # 21
        THEN Verdict(TRUE, FALSE, playerSize = 2, FALSE)
    ELSE IF dealerSum = 21 /\ playerSum # 21
        THEN Verdict(FALSE, TRUE, dealerSize = 2, FALSE)
    ELSE IF dealerSum = 21 /\ playerSum = 21
        THEN IF playerSize = 2 /\ dealerSize # 2
                 THEN Verdict(TRUE, FALSE, TRUE, FALSE)
             ELSE IF playerSize # 2 /\ dealerSize = 2
                 THEN Verdict(FALSE, TRUE, TRUE, FALSE)
             ELSE Verdict(FALSE, FALSE, FALSE, FALSE)
    ELSE Verdict(FALSE, FALSE, FALSE, TRUE)

\* faulty variant: every winning 21 counts as a blackjack, whatever the hand size
DecideOn21OrTie_AnySize(playerSum, dealerSum, playerSize, dealerSize) ==
    IF playerSum = 21 /\ dealerSum # 21
        THEN Verdict(TRUE, FALSE, TRUE, FALSE)
    ELSE IF dealerSum = 21 /\ playerSum # 21
        THEN Verdict(FALSE, TRUE, TRUE, FALSE)
    ELSE IF dealerSum = 21 /\ playerSum = 21
        THEN IF playerSize = 2 /\ dealerSize # 2
                 THEN Verdict(TRUE, FALSE, TRUE, FALSE)
             ELSE IF playerSize # 2 /\ dealerSize = 2
                 THEN Verdict(FALSE, TRUE, TRUE, FALSE)
             ELSE Verdict(FALSE, FALSE, FALSE, FALSE)
    ELSE IF dealerSum = playerSum THEN Verdict(FALSE, FALSE, FALSE, FALSE)
    ELSE Verdict(FALSE, FALSE, FALSE, TRUE)

\* lines 119-143: one side has 21, or the sums are equal
DecideOn21OrTie(playerSum, dealerSum, playerSize, dealerSize) ==
    IF playerSum = 21 /\ dealerSum # 21
        THEN Verdict(TRUE, FALSE, playerSize = 2, FALSE)
    ELSE IF dealerSum = 21 /\ playerSum # 21
        THEN Verdict(FALSE, TRUE, dealerSize = 2, FALSE)
    ELSE IF dealerSum = 21 /\ playerSum = 21
        THEN IF playerSize = 2 /\ dealerSize # 2
                 THEN Verdict(TRUE, FALSE, TRUE, FALSE)
             ELSE IF playerSize # 2 /\ dealerSize = 2
                 THEN Verdict(FALSE, TRUE, TRUE, FALSE)
             ELSE Verdict(FALSE, FALSE, FALSE, FALSE)
    ELSE IF dealerSum = playerSum THEN Verdict(FALSE, FALSE, FALSE, FALSE)
    ELSE Verdict(FALSE, FALSE, FALSE, TRUE)

\* faulty variant: a 2-card 21 of the player is looked at before the dealer's bust
WhoWon_BlackjackBeforeBust(playerSum, dealerSum, playerSize, dealerSize) ==
    IF playerSum > 21 THEN Verdict(FALSE, TRUE, FALSE, FALSE)
    ELSE IF playerSum = 21 /\ playerSize = 2 /\ dealerSum # 21
        THEN Verdict(TRUE, FALSE, TRUE, FALSE)
    ELSE IF dealerSum > 21 THEN Verdict(TRUE, FALSE, FALSE, FALSE)
    ELSE IF playerSum > dealerSum /\ playerSum < 21
        THEN Verdict(TRUE, FALSE, FALSE, FALSE)
    ELSE IF dealerSum > playerSum /\ dealerSum < 21
        THEN Verdict(FALSE, TRUE, FALSE, FALSE)
    ELSE DecideOn21OrTie(playerSum, dealerSum, playerSize, dealerSize)

\* faulty variant: the dealer's bust is looked at before the player's
WhoWon_DealerBustFirst(playerSum, dealerSum, playerSize, dealerSize) ==
    IF dealerSum > 21 THEN Verdict(TRUE, FALSE, FALSE, FALSE)
    ELSE IF playerSum > 21 THEN Verdict(FALSE, TRUE, FALSE, FALSE)
    ELSE IF playerSum > dealerSum /\ playerSum < 21
        THEN Verdict(TRUE, FALSE, FALSE, FALSE)
    ELSE IF dealerSum > playerSum /\ dealerSum < 21
        THEN Verdict(FALSE, TRUE, FALSE, FALSE)
    ELSE DecideOn21OrTie(playerSum, dealerSum, playerSize, dealerSize)

\* lines 111-143: the whole chain
WhoWon(playerSum, dealerSum, playerSize, dealerSize) ==
    IF playerSum > 21 THEN Verdict(FALSE, TRUE, FALSE, FALSE)
    ELSE IF dealerSum > 21 THEN Verdict(TRUE, FALSE, FALSE, FALSE)
    ELSE IF playerSum > dealerSum /\ playerSum < 21
        THEN Verdict(TRUE, FALSE, FALSE, FALSE)
    ELSE IF dealerSum > playerSum /\ dealerSum < 21
        THEN Verdict(FALSE, TRUE, FALSE, FALSE)
    ELSE DecideOn21OrTie(playerSum, dealerSum, playerSize, dealerSize)

\* the result text printed for a verdict (lines 147-163)
ResultText(v) ==
    IF v.wonWithBlackjack THEN "blackjack"
    ELSE IF v.playerWon /\ ~v.wonWithBlackjack THEN "won"
    ELSE IF v.dealerWon THEN "lost"
    ELSE "tie"

\* faulty variant: a win with blackjack paid like a plain win
MoneyAfterResult_FlatWin(v, money, bet) ==
    IF ResultText(v) = "blackjack" THEN payout(money, bet, 2)
    ELSE IF ResultText(v) = "won" THEN payout(money, bet, 2)
    ELSE money

\* playerMoney after the payout branch taken for a verdict
MoneyAfterResult(v, money, bet) ==
    IF ResultText(v) = "blackjack" THEN payout(money, bet, 3)
    ELSE IF ResultText(v) = "won" THEN payout(money, bet, 2)
    ELSE money

(***************************************************************************)
(* Initial state: Blackjack() constructed, launchGame() at its prompt.     *)
(***************************************************************************)
Init ==
    /\ pc = "launch"
    /\ playerMoney = 2 * MONEY_AT_START
    /\ thisRoundBet = 0
    /\ playerHand = <<>>
    /\ dealerHand = <<>>
    /\ playerWon = FALSE
    /\ dealerWon = FALSE
    /\ wonWithBlackjack = FALSE
    /\ notDefined = FALSE
    /\ resultShown = "none"
    /\ shownBalance = 2 * MONEY_AT_START
    /\ userInput = <<>>
    /\ roundsPlayed = 0
    /\ cardObject = NoCard
    /\ call = NoCall

verdictVars == <<playerWon, dealerWon, wonWithBlackjack, notDefined, resultShown>>

\* faulty variant: playRound without its two emptyHand calls
EnterPlayRound_KeepHands ==
    /\ roundsPlayed < MaxRounds
    /\ shownBalance' = playerMoney
    /\ roundsPlayed' = roundsPlayed + 1
    /\ pc' = "bet"
    /\ userInput' = <<>>
    /\ UNCHANGED <<playerMoney, thisRoundBet, playerHand, dealerHand, verdictVars,
                   cardObject, call>>

\* the first statements of playRound: both hands emptied, requestBetAmount
\* prints the balance and waits for a bet
EnterPlayRound ==
    /\ roundsPlayed < MaxRounds
    /\ playerHand' = <<>>
    /\ dealerHand' = <<>>
    /\ shownBalance' = playerMoney
    /\ roundsPlayed' = roundsPlayed + 1
    /\ pc' = "bet"
    /\ userInput' = <<>>
    /\ UNCHANGED <<playerMoney, thisRoundBet, verdictVars, cardObject, call>>

\* quitGame: exit(0)
quitGame ==
    /\ pc' = "quit"
    /\ userInput' = <<>>
    /\ UNCHANGED <<playerMoney, thisRoundBet, playerHand, dealerHand, verdictVars,
                   shownBalance, roundsPlayed, cardObject, call>>

\* an unrecognised token: the prompt loop holds it and reads again
Reprompt(input) ==
    /\ userInput' = input
    /\ UNCHANGED <<pc, playerMoney, thisRoundBet, playerHand, dealerHand, verdictVars,
                shownBalance, roundsPlayed, cardObject, call>>

\* the 's' / 'q' prompt loop shared by launchGame and concludeRound
StartOrQuit(input) ==
    IF input = <<"s">> \/ input = <<"S">> THEN EnterPlayRound
    ELSE IF input = <<"q">> \/ input = <<"Q">> THEN quitGame
    ELSE Reprompt(input)

launchGame(input) ==
    /\ pc = "launch"
    /\ StartOrQuit(input)

requestBetAmount(betStr) ==
    /\ pc = "bet"
    /\ LET check == CheckBet(betStr, playerMoney)
       IN  IF check = "accepted"
           THEN /\ thisRoundBet' = 2 * stoi(betStr)
                /\ playerMoney' = playerMoney - 2 * stoi(betStr)
                /\ pc' = "dealDealer"
                /\ userInput' = <<>>
           ELSE /\ pc' = IF check = "outOfRange" THEN "aborted" ELSE "bet"
                /\ userInput' = betStr
                /\ UNCHANGED <<thisRoundBet, playerMoney>>
    /\ UNCHANGED <<playerHand, dealerHand, verdictVars, shownBalance, roundsPlayed, cardObject, call>>

\* dealerHand.addRandomCards(1) at the start of the round
DealDealer(r1, r2) ==
    /\ pc = "dealDealer"
    /\ dealerHand' = Append(dealerHand, RandomCard(r1, r2))
    /\ pc' = "dealPlayer1"
    /\ UNCHANGED <<playerMoney, thisRoundBet, playerHand, verdictVars, shownBalance,
                   userInput, roundsPlayed, cardObject, call>>

\* the player's first card
DealPlayerFirst(r1, r2) ==
    /\ pc = "dealPlayer1"
    /\ playerHand' = Append(playerHand, RandomCard(r1, r2))
    /\ pc' = "dealPlayer2"
    /\ UNCHANGED <<playerMoney, thisRoundBet, dealerHand, verdictVars, shownBalance,
                   userInput, roundsPlayed, cardObject, call>>

\* faulty variant: the hit-or-stand prompt follows the second card even on 21
DealPlayerSecond_AlwaysAsk(r1, r2) ==
    /\ pc = "dealPlayer2"
    /\ playerHand' = Append(playerHand, RandomCard(r1, r2))
    /\ pc' = "hitOrStand"
    /\ UNCHANGED <<playerMoney, thisRoundBet, dealerHand, verdictVars, shownBalance,
                   userInput, roundsPlayed, cardObject, call>>

\* the player's second card, then the test for a 21 straight away
DealPlayerSecond(r1, r2) ==
    /\ pc = "dealPlayer2"
    /\ playerHand' = Append(playerHand, RandomCard(r1, r2))
    /\ pc' = IF sumOptimal(playerHand') = 21 THEN "conclude" ELSE "hitOrStand"
    /\ UNCHANGED <<playerMoney, thisRoundBet, dealerHand, verdictVars, shownBalance,
                   userInput, roundsPlayed, cardObject, call>>

\* faulty variant: the dealer loop runs only while the sum is below 16
DealerNext_StandOnSixteen(hand) == IF sumOptimal(hand) < 16 THEN "dealerTurn" ELSE "conclude"

\* faulty variant: the dealer loop is never left
DealerNext_LoopNeverLeft(hand) == "dealerTurn"

\* where playRound goes once the hit loop is left: the dealer loop, or
\* concludeRound when the dealer already has 17 or more
DealerNext(hand) == IF sumOptimal(hand) < 17 THEN "dealerTurn" ELSE "conclude"

\* faulty variant: a hit draws two cards
Hit_TwoCards(input, r1, r2) ==
    /\ pc = "hitOrStand"
    /\ input = <<"h">> \/ input = <<"H">>
    /\ Len(playerHand) < MaxPlayerCards
    /\ userInput' = <<>>
    /\ playerHand' = Append(Append(playerHand, RandomCard(r1, r2)), RandomCard(r2, r1))
    /\ pc' = IF sumOptimal(playerHand') >= 21 THEN "conclude" ELSE "hitOrStand"
    /\ UNCHANGED <<playerMoney, thisRoundBet, dealerHand, verdictVars, shownBalance,
                   roundsPlayed, cardObject, call>>

\* requestHitOrStand returns "hit": the test and the body of the hit loop
HitDraw(input, r1, r2) ==
    /\ pc = "hitOrStand"
    /\ input = <<"h">> \/ input = <<"H">>
    /\ userInput' = <<>>
    /\ IF sumOptimal(playerHand) < 21
       THEN /\ playerHand' = Append(playerHand, RandomCard(r1, r2))
            /\ pc' = IF sumOptimal(playerHand') >= 21 THEN "conclude" ELSE "hitOrStand"
       ELSE /\ playerHand' = playerHand
            /\ pc' = DealerNext(dealerHand)
    /\ UNCHANGED <<playerMoney, thisRoundBet, dealerHand, verdictVars, shownBalance,
                   roundsPlayed, cardObject, call>>

\* faulty variant: the hit loop without its test for 21 or more after the draw
Hit_NoConcludeOn21(input, r1, r2) ==
    /\ pc = "hitOrStand"
    /\ input = <<"h">> \/ input = <<"H">>
    /\ Len(playerHand) < MaxPlayerCards
    /\ userInput' = <<>>
    /\ IF sumOptimal(playerHand) < 21
       THEN /\ playerHand' = Append(playerHand, RandomCard(r1, r2))
            /\ pc' = "hitOrStand"
       ELSE /\ playerHand' = playerHand
            /\ pc' = DealerNext(dealerHand)
    /\ UNCHANGED <<playerMoney, thisRoundBet, dealerHand, verdictVars, shownBalance,
                   roundsPlayed, cardObject, call>>

\* a hit in the game: the player is offered it while holding fewer than
\* MaxPlayerCards cards
Hit(input, r1, r2) ==
    /\ Len(playerHand) < MaxPlayerCards
    /\ HitDraw(input, r1, r2)

\* faulty variant: a stand goes to concludeRound past the dealer loop
Stand_PastDealerLoop(input) ==
    /\ pc = "hitOrStand"
    /\ input = <<"s">> \/ input = <<"S">>
    /\ userInput' = <<>>
    /\ pc' = "conclude"
    /\ UNCHANGED <<playerMoney, thisRoundBet, playerHand, dealerHand, verdictVars,
                   shownBalance, roundsPlayed, cardObject, call>>

\* requestHitOrStand returns "stand"
Stand(input) ==
    /\ pc = "hitOrStand"
    /\ input = <<"s">> \/ input = <<"S">>
    /\ userInput' = <<>>
    /\ pc' = DealerNext(dealerHand)
    /\ UNCHANGED <<playerMoney, thisRoundBet, playerHand, dealerHand, verdictVars,
                   shownBalance, roundsPlayed, cardObject, call>>

\* faulty variant: a token that is neither h/H nor s/S counts as a stand
InvalidHitOrStand_CountsAsStand(input) ==
    /\ pc = "hitOrStand"
    /\ input \notin {<<"h">>, <<"H">>, <<"s">>, <<"S">>}
    /\ userInput' = input
    /\ pc' = DealerNext(dealerHand)
    /\ UNCHANGED <<playerMoney, thisRoundBet, playerHand, dealerHand, verdictVars,
                   shownBalance, roundsPlayed, cardObject, call>>

\* faulty variant: a token that is neither h/H nor s/S quits the game
InvalidHitOrStand_Quits(input) ==
    /\ pc = "hitOrStand"
    /\ input \notin {<<"h">>, <<"H">>, <<"s">>, <<"S">>}
    /\ quitGame

\* requestHitOrStand reads a token that is neither h/H nor s/S
InvalidHitOrStand(input) ==
    /\ pc = "hitOrStand"
    /\ input \notin {<<"h">>, <<"H">>, <<"s">>, <<"S">>}
    /\ Reprompt(input)

\* faulty variant: the dealer loop also runs on a sum of 17
DealerDraw_HitsOnSeventeen(r1, r2) ==
    /\ pc = "dealerTurn"
    /\ sumOptimal(dealerHand) <= 17
    /\ dealerHand' = Append(dealerHand, RandomCard(r1, r2))
    /\ pc' = IF sumOptimal(dealerHand') <= 17 THEN "dealerTurn" ELSE "conclude"
    /\ UNCHANGED <<playerMoney, thisRoundBet, playerHand, verdictVars, shownBalance,
                   userInput, roundsPlayed, cardObject, call>>

\* one pass of the dealer loop
DealerDraw(r1, r2) ==
    /\ pc = "dealerTurn"
    /\ sumOptimal(dealerHand) < 17
    /\ dealerHand' = Append(dealerHand, RandomCard(r1, r2))
    /\ pc' = DealerNext(dealerHand')
    /\ UNCHANGED <<playerMoney, thisRoundBet, playerHand, verdictVars, shownBalance,
                   userInput, roundsPlayed, cardObject, call>>

\* faulty variant: concludeRound without its "playerMoney < 1" test
concludeRound_NoFundsTest ==
    /\ pc = "conclude"
    /\ LET v == WhoWon(sumOptimal(playerHand), sumOptimal(dealerHand),
                       Len(playerHand), Len(dealerHand))
           money == MoneyAfterResult(v, playerMoney, thisRoundBet)
       IN  /\ playerWon' = v.playerWon
           /\ dealerWon' = v.dealerWon
           /\ wonWithBlackjack' = v.wonWithBlackjack
           /\ notDefined' = v.notDefined
           /\ resultShown' = ResultText(v)
           /\ playerMoney' = money
           /\ pc' = "newRound"
    /\ UNCHANGED <<thisRoundBet, playerHand, dealerHand, shownBalance, userInput,
                   roundsPlayed, cardObject, call>>

\* faulty variant: concludeRound returns to the hit loop of playRound
concludeRound_ReturnsToCaller ==
    /\ pc = "conclude"
    /\ LET v == WhoWon(sumOptimal(playerHand), sumOptimal(dealerHand),
                       Len(playerHand), Len(dealerHand))
           money == MoneyAfterResult(v, playerMoney, thisRoundBet)
       IN  /\ playerWon' = v.playerWon
           /\ dealerWon' = v.dealerWon
           /\ wonWithBlackjack' = v.wonWithBlackjack
           /\ notDefined' = v.notDefined
           /\ resultShown' = ResultText(v)
           /\ playerMoney' = money
           /\ pc' = "hitOrStand"
    /\ UNCHANGED <<thisRoundBet, playerHand, dealerHand, shownBalance, userInput,
                   roundsPlayed, cardObject, call>>

\* faulty variant: concludeRound quits on a balance below MONEY_AT_START
concludeRound_QuitsBelowStart ==
    /\ pc = "conclude"
    /\ LET v == WhoWon(sumOptimal(playerHand), sumOptimal(dealerHand),
                       Len(playerHand), Len(dealerHand))
           money == MoneyAfterResult(v, playerMoney, thisRoundBet)
       IN  /\ playerWon' = v.playerWon
           /\ dealerWon' = v.dealerWon
           /\ wonWithBlackjack' = v.wonWithBlackjack
           /\ notDefined' = v.notDefined
           /\ resultShown' = ResultText(v)
           /\ playerMoney' = money
           /\ pc' = IF money < 2 * MONEY_AT_START THEN "quit" ELSE "newRound"
    /\ UNCHANGED <<thisRoundBet, playerHand, dealerHand, shownBalance, userInput,
                   roundsPlayed, cardObject, call>>

\* concludeRound up to its new-round prompt
concludeRound ==
    /\ pc = "conclude"
    /\ LET v == WhoWon(sumOptimal(playerHand), sumOptimal(dealerHand),
                       Len(playerHand), Len(dealerHand))
           money == MoneyAfterResult(v, playerMoney, thisRoundBet)
       IN  /\ playerWon' = v.playerWon
           /\ dealerWon' = v.dealerWon
           /\ wonWithBlackjack' = v.wonWithBlackjack
           /\ notDefined' = v.notDefined
           /\ resultShown' = ResultText(v)
           /\ playerMoney' = money
           /\ pc' = IF money < 2 THEN "quit" ELSE "newRound"
    /\ UNCHANGED <<thisRoundBet, playerHand, dealerHand, shownBalance, userInput,
                   roundsPlayed, cardObject, call>>

\* the new-round prompt at the end of concludeRound
NewRoundPrompt(input) ==
    /\ pc = "newRound"
    /\ StartOrQuit(input)

Next ==
    \/ \E input \in MenuInputs : launchGame(input)
    \/ \E betStr \in BetInputs : requestBetAmount(betStr)
    \/ \E r1, r2 \in RandSample : DealDealer(r1, r2)
    \/ \E r1, r2 \in RandSample : DealPlayerFirst(r1, r2)
    \/ \E r1, r2 \in RandSample : DealPlayerSecond(r1, r2)
    \/ \E input \in HitStandInputs, r1, r2 \in RandSample : Hit(input, r1, r2)
    \/ \E input \in HitStandInputs : Stand(input)
    \/ \E input \in HitStandInputs : InvalidHitOrStand(input)
    \/ \E r1, r2 \in RandSample : DealerDraw(r1, r2)
    \/ concludeRound
    \/ \E input \in MenuInputs : NewRoundPrompt(input)

Spec == Init /\ [][Next]_vars

(***************************************************************************)
(* concludeRound applied to fixture hands: every pair of hands of up to    *)
(* MaxFixtureCards cards, a bet of 1 or of the whole balance of 10.        *)
(***************************************************************************)
FixtureCards == { RandomCard(r1, r2) : r1 \in FixtureSample, r2 \in FixtureSample }

FixtureHands == UNION { [1..n -> FixtureCards] : n \in 1..MaxFixtureCards }

InitConclude ==
    /\ pc = "conclude"
    /\ shownBalance = 2 * MONEY_AT_START
    /\ thisRoundBet \in {2, 2 * MONEY_AT_START}
    /\ playerMoney = shownBalance - thisRoundBet
    /\ playerHand \in FixtureHands
    /\ dealerHand \in FixtureHands
    /\ playerWon = FALSE
    /\ dealerWon = FALSE
    /\ wonWithBlackjack = FALSE
    /\ notDefined = FALSE
    /\ resultShown = "none"
    /\ userInput = <<>>
    /\ roundsPlayed = 1
    /\ cardObject = NoCard
    /\ call = NoCall

NextConclude == concludeRound

SpecConclude == InitConclude /\ [][NextConclude]_vars

(***************************************************************************)
(* The dealer loop of playRound from the state the player's stand leaves:  *)
(* the dealer holds the one card dealt at the start of the round and draws *)
(* more, every card any of A, 2..10 (J, Q and K count like 10).  The       *)
(* player stood on 19.                                                     *)
(***************************************************************************)
\* the hand the player stood on: K and 9
StoodHand == <<RandomCard(12, 0), RandomCard(8, 0)>>

InitDealer ==
    /\ pc = "dealerTurn"
    /\ shownBalance = 2 * MONEY_AT_START
    /\ thisRoundBet = 2
    /\ playerMoney = shownBalance - thisRoundBet
    /\ playerHand = StoodHand
    /\ dealerHand \in { <<RandomCard(r1, 0)>> : r1 \in DealerSample }
    /\ playerWon = FALSE
    /\ dealerWon = FALSE
    /\ wonWithBlackjack = FALSE
    /\ notDefined = FALSE
    /\ resultShown = "none"
    /\ userInput = <<>>
    /\ roundsPlayed = 1
    /\ cardObject = NoCard
    /\ call = NoCall

DealerTurn == \E r1 \in DealerSample : DealerDraw(r1, 0)

NextDealer ==
    \/ DealerTurn
    \/ concludeRound

SpecDealer == InitDealer /\ [][NextDealer]_vars

\* the dealer loop waits for no input: its body runs whenever its condition
\* holds
SpecDealerFair == SpecDealer /\ WF_vars(DealerTurn)

(***************************************************************************)
(* sumOptimal and Card::getGameValue applied by concludeRound to every     *)
(* player hand of up to MaxHandCards cards over the thirteen face values;  *)
(* the dealer holds a 9.                                                   *)
(***************************************************************************)
RankCards == { RandomCard(r1, 0) : r1 \in RankSample }

RankHands == UNION { [1..n -> RankCards] : n \in 1..MaxHandCards }

InitHands ==
    /\ pc = "conclude"
    /\ shownBalance = 2 * MONEY_AT_START
    /\ thisRoundBet = 2
    /\ playerMoney = shownBalance - thisRoundBet
    /\ playerHand \in RankHands
    /\ dealerHand = <<RandomCard(8, 0)>>
    /\ playerWon = FALSE
    /\ dealerWon = FALSE
    /\ wonWithBlackjack = FALSE
    /\ notDefined = FALSE
    /\ resultShown = "none"
    /\ userInput = <<>>
    /\ roundsPlayed = 1
    /\ cardObject = NoCard
    /\ call = NoCall

NextHands == concludeRound

SpecHands == InitHands /\ [][NextHands]_vars

(***************************************************************************)
(* One round of playRound from the accepted bet to the outcome, the player *)
(* answering every prompt with h or s and no limit on the number of hits.  *)
(* The cards drawn are A, 5 and K.                                         *)
(***************************************************************************)
RoundSample == {0, 4, 12}

InitRound ==
    /\ pc = "dealDealer"
    /\ shownBalance = 2 * MONEY_AT_START
    /\ thisRoundBet = 2
    /\ playerMoney = shownBalance - thisRoundBet
    /\ playerHand = <<>>
    /\ dealerHand = <<>>
    /\ playerWon = FALSE
    /\ dealerWon = FALSE
    /\ wonWithBlackjack = FALSE
    /\ notDefined = FALSE
    /\ resultShown = "none"
    /\ userInput = <<>>
    /\ roundsPlayed = 1
    /\ cardObject = NoCard
    /\ call = NoCall

\* the statements of playRound between the accepted bet and a call of
\* concludeRound
PlayRoundStep ==
    \/ \E r1 \in RoundSample : DealDealer(r1, 0)
    \/ \E r1 \in RoundSample : DealPlayerFirst(r1, 0)
    \/ \E r1 \in RoundSample : DealPlayerSecond(r1, 0)
    \/ \E r1 \in RoundSample : HitDraw(<<"h">>, r1, 0)
    \/ Stand(<<"s">>)
    \/ \E r1 \in RoundSample : DealerDraw(r1, 0)

NextRound ==
    \/ PlayRoundStep
    \/ concludeRound

\* the deals and the dealer loop wait for nothing and a valid decision is
\* supplied at every prompt
SpecRound == InitRound /\ [][NextRound]_vars /\ WF_vars(PlayRoundStep)

(***************************************************************************)
(* The Card class used on its own: a caller constructs Card objects, at    *)
(* random or from two strings, and sets their fields.                      *)
(***************************************************************************)
\* The values of rand() handed to Card(): every remainder of % 13 and of
\* % 4, a value beyond 13 and the largest one.
CardRandSample == 0..13 \cup {INT_MAX}

\* The face value strings handed to Card(string, string) and setFaceValue:
\* the thirteen of the deck and four others.
FaceValueArgs ==
    { <<"A">>, <<"2">>, <<"3">>, <<"4">>, <<"5">>, <<"6">>, <<"7">>, <<"8">>, <<"9">>,
      <<"1", "0">>, <<"J">>, <<"Q">>, <<"K">>,
      <<"1">>, <<"2", "5">>, <<"3", "x">>, <<"B">> }

\* The symbol strings handed to Card(string, string) and setSymbol: the
\* four of the deck and one other.
SymbolArgs == { "hearts", "diamonds", "clubs", "spades", "stars" }

\* what the game holds while the classes are used on their own
gameVars == <<playerMoney, thisRoundBet, dealerHand, verdictVars, shownBalance,
              userInput, roundsPlayed>>

InitCard ==
    /\ pc = "caller"
    /\ playerMoney = 2 * MONEY_AT_START
    /\ thisRoundBet = 0
    /\ playerHand = <<>>
    /\ dealerHand = <<>>
    /\ playerWon = FALSE
    /\ dealerWon = FALSE
    /\ wonWithBlackjack = FALSE
    /\ notDefined = FALSE
    /\ resultShown = "none"
    /\ shownBalance = 2 * MONEY_AT_START
    /\ userInput = <<>>
    /\ roundsPlayed = 0
    /\ cardObject = NoCard
    /\ call = NoCall

\* Card::Card()
CardDefault(r1, r2) ==
    /\ pc = "caller"
    /\ call' = [NoCall EXCEPT !.op = "Card()"]
    /\ cardObject' = RandomCard(r1, r2)
    /\ UNCHANGED <<pc, playerHand, gameVars>>

\* Card::Card(string, string)
CardFromStrings(faceValueString_, symbolString_) ==
    /\ pc = "caller"
    /\ call' = [NoCall EXCEPT !.op = "Card(string, string)",
                              !.faceValue = faceValueString_,
                              !.symbol = symbolString_]
    /\ IF errorCheckCardValue(faceValueString_) \/ errorCheckCardSymbol(symbolString_)
       THEN /\ pc' = "exit"
            /\ cardObject' = cardObject
       ELSE /\ pc' = pc
            /\ cardObject' = [faceValueString |-> faceValueString_,
                              symbolString |-> symbolString_]
    /\ UNCHANGED <<playerHand, gameVars>>

\* Card::setFaceValue on a constructed card
setFaceValue(newFaceValue) ==
    /\ pc = "caller"
    /\ cardObject # NoCard
    /\ call' = [NoCall EXCEPT !.op = "setFaceValue", !.faceValue = newFaceValue]
    /\ IF errorCheckCardValue(newFaceValue)
       THEN /\ pc' = "exit"
            /\ cardObject' = cardObject
       ELSE /\ pc' = pc
            /\ cardObject' = [cardObject EXCEPT !.faceValueString = newFaceValue]
    /\ UNCHANGED <<playerHand, gameVars>>

\* Card::setSymbol on a constructed card
setSymbol(newSymbol) ==
    /\ pc = "caller"
    /\ cardObject # NoCard
    /\ call' = [NoCall EXCEPT !.op = "setSymbol", !.symbol = newSymbol]
    /\ IF errorCheckCardSymbol(newSymbol)
       THEN /\ pc' = "exit"
            /\ cardObject' = cardObject
       ELSE /\ pc' = pc
            /\ cardObject' = [cardObject EXCEPT !.symbolString = newSymbol]
    /\ UNCHANGED <<playerHand, gameVars>>

NextCard ==
    \/ \E r1, r2 \in CardRandSample : CardDefault(r1, r2)
    \/ \E f \in FaceValueArgs, s \in SymbolArgs : CardFromStrings(f, s)
    \/ \E f \in FaceValueArgs : setFaceValue(f)
    \/ \E s \in SymbolArgs : setSymbol(s)

SpecCard == InitCard /\ [][NextCard]_vars

(***************************************************************************)
(* The Hand class used on its own: a caller adds cards to a Hand, removes  *)
(* the last one, empties it and reads cards by index.  playerHand is the   *)
(* Hand's cardsInHand, cardObject the Card that getCardAtIndex returned.   *)
(*                                                                         *)
(* cardsInHand[index] outside the vector and pop_back() on an empty vector *)
(* are undefined behaviour: the read either ends the program with a memory *)
(* fault or yields whatever the memory holds, the pop_back either ends the *)
(* program or leaves a vector whose size no longer matches its content.    *)
(***************************************************************************)
\* The indices handed to getCardAtIndex.
IndexArgs == (0 - 1)..MaxCallerCards

\* what a read outside the vector can yield
GarbageCards == FixtureCards \cup {NoCard}

InitHandOps ==
    /\ pc = "caller"
    /\ playerMoney = 2 * MONEY_AT_START
    /\ thisRoundBet = 0
    /\ playerHand = <<>>
    /\ dealerHand = <<>>
    /\ playerWon = FALSE
    /\ dealerWon = FALSE
    /\ wonWithBlackjack = FALSE
    /\ notDefined = FALSE
    /\ resultShown = "none"
    /\ shownBalance = 2 * MONEY_AT_START
    /\ userInput = <<>>
    /\ roundsPlayed = 0
    /\ cardObject = NoCard
    /\ call = NoCall

\* Hand::addCard
addCard(cardToAdd) ==
    /\ pc = "caller"
    /\ Len(playerHand) < MaxCallerCards
    /\ call' = [NoCall EXCEPT !.op = "addCard"]
    /\ playerHand' = Append(playerHand, cardToAdd)
    /\ UNCHANGED <<pc, cardObject, gameVars>>

\* Hand::removeLastCard
removeLastCard ==
    /\ pc = "caller"
    /\ call' = [NoCall EXCEPT !.op = "removeLastCard"]
    /\ IF playerHand # <<>>
       THEN /\ playerHand' = SubSeq(playerHand, 1, Len(playerHand) - 1)
            /\ pc' = pc
       ELSE /\ playerHand' = playerHand
            /\ pc' \in {"crashed", "corrupted"}
    /\ UNCHANGED <<cardObject, gameVars>>

\* Hand::emptyHand
emptyHand ==
    /\ pc = "caller"
    /\ call' = [NoCall EXCEPT !.op = "emptyHand"]
    /\ playerHand' = <<>>
    /\ UNCHANGED <<pc, cardObject, gameVars>>

\* Hand::getCardAtIndex
getCardAtIndex(index) ==
    /\ pc = "caller"
    /\ call' = [NoCall EXCEPT !.op = "getCardAtIndex", !.index = index]
    /\ IF index >= 0 /\ index < Len(playerHand)
       THEN /\ cardObject' = playerHand[index + 1]
            /\ pc' = pc
       ELSE \/ /\ pc' = "crashed"
               /\ cardObject' = cardObject
            \/ /\ pc' = pc
               /\ cardObject' \in GarbageCards
    /\ UNCHANGED <<playerHand, gameVars>>

NextHandOps ==
    \/ \E cardToAdd \in FixtureCards : addCard(cardToAdd)
    \/ removeLastCard
    \/ emptyHand
    \/ \E index \in IndexArgs : getCardAtIndex(index)

SpecHandOps == InitHandOps /\ [][NextHandOps]_vars

(***************************************************************************)
(* Properties.                                                             *)
(***************************************************************************)
PlayerSum == sumOptimal(playerHand)
DealerSum == sumOptimal(dealerHand)

\* concludeRound has resolved the round whose hands are on the table
Resolved == pc \in {"newRound", "quit"} /\ resultShown # "none"

\* C1: a round resolved as a tie (neither side wins) leaves the bankroll at
\* its value before the bet: the stake deducted in playRound is returned.
C1_PushReturnsStake ==
    Resolved /\ ~playerWon /\ ~dealerWon => playerMoney = shownBalance

\* C2: a round resolved with a 2-card 21 of the dealer against a player total
\* below 21 pays nothing: the bankroll is its value before the bet minus the bet.
C2_DealerBlackjackPaysNothing ==
    Resolved /\ Len(dealerHand) = 2 /\ DealerSum = 21 /\ PlayerSum < 21
        => playerMoney = shownBalance - thisRoundBet

\* C3: a round resolved with a 2-card 21 of the player against a dealer total
\* below 21 adds bet x 2.5 to the bankroll left after the bet.
C3_PlayerBlackjackPays ==
    Resolved /\ Len(playerHand) = 2 /\ PlayerSum = 21 /\ DealerSum < 21
        => playerMoney = (shownBalance - thisRoundBet) + (5 * thisRoundBet) \div 2

C3_Witness ==
    /\ Resolved
    /\ Len(playerHand) = 2 /\ PlayerSum = 21 /\ DealerSum < 21
    /\ Len(dealerHand) > 1
    /\ resultShown = "blackjack"

\* C4: a plain win (the player's total is higher without a bust and is not
\* a 2-card 21, or the player is not bust and the dealer is) adds bet x 2 to
\* the bankroll left after the bet.
C4_PlainWinPaysDouble ==
    /\ Resolved
    /\ PlayerSum <= 21
    /\ \/ DealerSum > 21
       \/ PlayerSum > DealerSum /\ ~(PlayerSum = 21 /\ Len(playerHand) = 2)
    => playerMoney = (shownBalance - thisRoundBet) + 2 * thisRoundBet

C4_Witness ==
    /\ Resolved
    /\ PlayerSum = 21 /\ Len(playerHand) = 3 /\ DealerSum < 21
    /\ resultShown = "won"

C6_PlayerBustLoses ==
    Resolved /\ PlayerSum > 21
        => /\ dealerWon /\ ~playerWon /\ ~wonWithBlackjack
           /\ playerMoney = shownBalance - thisRoundBet

C6_Witness ==
    Resolved /\ PlayerSum > 21 /\ DealerSum > 21 /\ resultShown = "lost"

\* C7: the decision chain picks exactly one of player wins, dealer wins and
\* tie: never both winners, the blackjack flag only with a winner, and the
\* "Not defined who won" branch is never taken.
C7_ExactlyOneOutcome ==
    Resolved
        => /\ ~(playerWon /\ dealerWon)
           /\ (wonWithBlackjack => playerWon \/ dealerWon)
           /\ ~notDefined

C7_Witness ==
    /\ Resolved
    /\ PlayerSum = DealerSum /\ PlayerSum < 21
    /\ ~playerWon /\ ~dealerWon /\ ~notDefined

\* C8: the bankroll is never negative.
C8_BankrollNeverNegative == playerMoney >= 0

C8_Witness ==
    pc = "dealDealer" /\ playerMoney = 0 /\ thisRoundBet = shownBalance

\* C9: a whole-number bet is accepted exactly if it is at least 1 and at most
\* the bankroll; an accepted bet is deducted from the bankroll before any
\* card is dealt.
C9_BetAcceptance ==
    [][pc = "bet" =>
           /\ pc' = "dealDealer" =>
                  /\ thisRoundBet' >= 2
                  /\ thisRoundBet' <= playerMoney
                  /\ playerMoney' = playerMoney - thisRoundBet'
                  /\ playerHand' = <<>> /\ dealerHand' = <<>>
           /\ pc' # "dealDealer" /\ inputIsNumerical(userInput') =>
                  \/ stoi(userInput') = -1
                  \/ stoi(userInput') < 1
                  \/ 2 * stoi(userInput') > playerMoney]_vars

C9_Witness ==
    /\ pc = "dealDealer"
    /\ thisRoundBet = 2 /\ playerMoney = shownBalance - 2
    /\ playerHand = <<>> /\ dealerHand = <<>>

\* a token that is no whole number, is below 1 or exceeds the balance
\* (a number too large for an int exceeds every balance)
InvalidBet(betStr, money) ==
    \/ ~inputIsNumerical(betStr)
    \/ stoi(betStr) = -1
    \/ stoi(betStr) < 1
    \/ 2 * stoi(betStr) > money

\* C10: an invalid bet (0, negative, not a number, above the bankroll) is
\* rejected: bankroll, bet and hands stay and the bet prompt keeps waiting.
C10_InvalidBetReprompts ==
    [][pc = "bet" /\ userInput' # <<>> /\ InvalidBet(userInput', playerMoney) =>
           /\ pc' = "bet"
           /\ UNCHANGED <<playerMoney, thisRoundBet, playerHand, dealerHand>>]_vars

\* C11: when concludeRound leaves a bankroll below 1 the program quits, and
\* nothing follows a quit; when it leaves at least 1 the new-round prompt
\* follows; a bet is only ever requested with a bankroll of at least 1.
C11_SessionOverOnInsufficientFunds ==
    [][/\ pc = "conclude" => pc' = (IF playerMoney' < 2 THEN "quit" ELSE "newRound")
       /\ pc = "quit" => pc' = "quit"
       /\ pc' = "bet" => playerMoney' >= 2]_vars

C11_Witness ==
    pc = "quit" /\ resultShown # "none" /\ playerMoney = 1 /\ roundsPlayed = 2

\* C12: whenever the hit-or-stand prompt is waiting, the first two cards of
\* the player's hand of this round do not have the optimal total 21.
C12_Starting21NotAsked ==
    pc = "hitOrStand" => sumOptimal(SubSeq(playerHand, 1, 2)) # 21

C12_Witness ==
    pc = "conclude" /\ Len(playerHand) = 2 /\ PlayerSum = 21 /\ userInput = <<>>

\* C13: when the outcome of a round that started with a 2-card 21 of the
\* player is computed, the dealer loop has run: the dealer's optimal total
\* is at least 17.
C13_Starting21ThroughDealerTurn ==
    pc = "conclude" /\ Len(playerHand) = 2 /\ PlayerSum = 21 => DealerSum >= 17

\* C14: the hit-or-stand prompt never waits with a player total of 21 or
\* more, and when the outcome is computed after a hit took the player to 21
\* or more the dealer loop has run: the dealer's optimal total is at least 17.
C14_HitTo21ThroughDealerTurn ==
    /\ pc = "hitOrStand" => PlayerSum < 21
    /\ pc = "conclude" /\ Len(playerHand) > 2 /\ PlayerSum >= 21 => DealerSum >= 17

\* C15: in the dealer loop a card is drawn exactly while the dealer's optimal
\* total is below 17 (one card per pass, no draw once it is 17 or more); the
\* loop is always left, with an optimal total of at least 17.
C15_DealerPolicy ==
    /\ [][/\ pc = "dealerTurn" =>
               /\ sumOptimal(dealerHand) < 17
               /\ Len(dealerHand') = Len(dealerHand) + 1
               /\ SubSeq(dealerHand', 1, Len(dealerHand)) = dealerHand
               /\ pc' = IF sumOptimal(dealerHand') < 17 THEN "dealerTurn" ELSE "conclude"
          /\ pc # "dealerTurn" => dealerHand' = dealerHand]_vars
    /\ (pc = "dealerTurn") ~> (pc = "conclude" /\ DealerSum >= 17)

C15_Witness ==
    pc = "conclude" /\ Len(dealerHand) >= 4 /\ DealerSum > 21

\* the total of a hand with every Ace valued 1
HardTotal(hand) == SumGameValues(hand) - 10 * CountAces(hand)

\* C16 as claimed: every draw of the dealer loop strictly increases the
\* dealer's optimal total.
C16_DrawIncreasesOptimalTotal ==
    [][pc = "dealerTurn" => sumOptimal(dealerHand') > sumOptimal(dealerHand)]_vars

\* C16 as amended: every draw of the dealer loop strictly increases the
\* dealer's total with every Ace valued 1, and the optimal total is never
\* below that total.
C16_DrawIncreasesHardTotal ==
    [][pc = "dealerTurn" =>
           /\ HardTotal(dealerHand') > HardTotal(dealerHand)
           /\ sumOptimal(dealerHand') >= HardTotal(dealerHand')]_vars

C16_Witness ==
    /\ Len(dealerHand) >= 2
    /\ sumOptimal(SubSeq(dealerHand, 1, Len(dealerHand) - 1)) < 17
    /\ sumOptimal(dealerHand) < sumOptimal(SubSeq(dealerHand, 1, Len(dealerHand) - 1))

(***************************************************************************)
(* The rules of the game, stated without the program's functions.          *)
(***************************************************************************)
\* the value printed in the rules for a face value: 2..10 as written, 10 for
\* the pictures, 11 for the Ace
NominalValue(f) ==
    CASE f = <<"2">> -> 2 [] f = <<"3">> -> 3 [] f = <<"4">> -> 4 [] f = <<"5">> -> 5
      [] f = <<"6">> -> 6 [] f = <<"7">> -> 7 [] f = <<"8">> -> 8 [] f = <<"9">> -> 9
      [] f = <<"1", "0">> -> 10 [] f = <<"J">> -> 10 [] f = <<"Q">> -> 10
      [] f = <<"K">> -> 10 [] f = <<"A">> -> 11

\* the positions of a hand that hold an Ace, and those that do not
AcePositions(hand) == { i \in DOMAIN hand : hand[i].faceValueString = <<"A">> }
OtherPositions(hand) == DOMAIN hand \ AcePositions(hand)

RECURSIVE NominalSumOver(_, _)
NominalSumOver(hand, positions) ==
    IF positions = {} THEN 0
    ELSE LET i == CHOOSE j \in positions : TRUE
         IN  NominalValue(hand[i].faceValueString) + NominalSumOver(hand, positions \ {i})

\* the totals of a hand over the valuations of each of its Aces as 1 or 11
ValuationTotals(hand) ==
    { NominalSumOver(hand, OtherPositions(hand)) + 11 * Cardinality(high)
          + (Cardinality(AcePositions(hand)) - Cardinality(high))
      : high \in SUBSET AcePositions(hand) }

SetMax(S) == CHOOSE x \in S : \A y \in S : y <= x
SetMin(S) == CHOOSE x \in S : \A y \in S : x <= y

\* the best total: the highest one up to 21, or the one with every Ace as 1
BestTotal(hand) ==
    LET notBust == { t \in ValuationTotals(hand) : t <= 21 }
    IN  IF notBust # {} THEN SetMax(notBust) ELSE SetMin(ValuationTotals(hand))

\* the lowest total up to 21, or the one with every Ace as 1
LowestTotal(hand) ==
    LET notBust == { t \in ValuationTotals(hand) : t <= 21 }
    IN  IF notBust # {} THEN SetMin(notBust) ELSE SetMin(ValuationTotals(hand))

\* the hands holding the cards of a hand in every order
PermutedHands(hand) ==
    { [i \in 1..Len(hand) |-> hand[p[i]]] : p \in Permutations(1..Len(hand)) }

C19_OptimalIsOrderIndependent ==
    \A hand \in PermutedHands(playerHand) : sumOptimal(hand) = sumOptimal(playerHand)

C19_Witness ==
    /\ Resolved
    /\ Len(playerHand) = 3
    /\ AcePositions(playerHand) = {3}
    /\ SumGameValues(playerHand) > 21 /\ PlayerSum = 21

\* C20: getGameValue of every card in the player's hand is the nominal value
\* of its face value (2..9 as written, 10 for "10", J, Q and K, 11 for A), and
\* isAce holds exactly for the face value A.
C20_NominalCardValue ==
    \A i \in DOMAIN playerHand :
        LET card == playerHand[i]
        IN  /\ getGameValue(card) = NominalValue(card.faceValueString)
            /\ isAce(card) <=> card.faceValueString = <<"A">>

C20_Witness ==
    /\ Resolved
    /\ { playerHand[i].faceValueString : i \in DOMAIN playerHand }
           = { <<"1", "0">>, <<"7">>, <<"A">> }

\* the thirteen face values and the four symbols of the deck
DeckFaceValues ==
    { <<"2">>, <<"3">>, <<"4">>, <<"5">>, <<"6">>, <<"7">>, <<"8">>, <<"9">>,
      <<"1", "0">>, <<"J">>, <<"Q">>, <<"K">>, <<"A">> }
DeckSymbols == { "hearts", "diamonds", "clubs", "spades" }

\* C21: Card(rank, suit) with one of the 13 face values and one of the 4
\* symbols reports no error and yields a card with that face value and symbol.
C21_ValidCardConstructed ==
    call.op = "Card(string, string)"
        /\ call.faceValue \in DeckFaceValues /\ call.symbol \in DeckSymbols
    => /\ pc = "caller"
       /\ cardObject = [faceValueString |-> call.faceValue, symbolString |-> call.symbol]

\* C22: Card(rank, suit), setFaceValue and setSymbol end in the error exit
\* for every face value outside the 13 and every symbol outside the 4, and
\* no constructed card holds a face value or symbol outside these sets.
C22_InvalidCardRejected ==
    /\ call.op \in {"Card(string, string)", "setFaceValue"}
           /\ call.faceValue \notin DeckFaceValues => pc = "exit"
    /\ call.op \in {"Card(string, string)", "setSymbol"}
           /\ call.symbol \notin DeckSymbols => pc = "exit"
    /\ cardObject # NoCard =>
           /\ cardObject.faceValueString \in DeckFaceValues
           /\ cardObject.symbolString \in DeckSymbols

\* C23: Card() never ends in an error and yields one of the 13 face values
\* and one of the 4 symbols; each face value and each symbol is yielded for
\* some value of rand().
C23_RandomCardValid ==
    /\ call.op = "Card()" =>
           /\ pc = "caller"
           /\ cardObject.faceValueString \in DeckFaceValues
           /\ cardObject.symbolString \in DeckSymbols
    /\ \A f \in DeckFaceValues :
           \E r \in CardRandSample : generateRandomCardValueString(r) = f
    /\ \A sym \in DeckSymbols :
           \E r \in CardRandSample : generateRandomCardSymbolString(r) = sym

C23_Witness ==
    /\ call.op = "Card()"
    /\ cardObject = [faceValueString |-> <<"1", "0">>, symbolString |-> "spades"]

\* C24: getCardAtIndex(index) yields the card at the 0-based position index
\* when 0 <= index < size; for every other index it ends in an error and
\* the hand stays as it was.
C24_CardAtBounds ==
    [][pc = "caller" /\ call'.op = "getCardAtIndex" =>
           /\ playerHand' = playerHand
           /\ IF call'.index >= 0 /\ call'.index < Len(playerHand)
              THEN pc' = "caller" /\ cardObject' = playerHand[call'.index + 1]
              ELSE pc' = "exit" /\ cardObject' = cardObject]_vars

\* C25: removeLastCard on a hand with cards removes exactly the last card;
\* on an empty hand it ends in an error and the hand stays empty.
C25_RemoveLastSafe ==
    [][pc = "caller" /\ call'.op = "removeLastCard" =>
           IF playerHand # <<>>
           THEN /\ pc' = "caller"
                /\ Len(playerHand') = Len(playerHand) - 1
                /\ playerHand = Append(playerHand', playerHand[Len(playerHand)])
           ELSE pc' = "exit" /\ playerHand' = <<>>]_vars

(***************************************************************************)
(* Hand::printHorizontal and the positions of cardsInHand it reads.        *)
(***************************************************************************)
\* the widths of size_t (the type of cardsInHand.size()) a build can have
SizeWidths == {32, 64}

\* x + y in an int: the sum, wrapped into 32 bits when it leaves the range
IntAdd(x, y) ==
    IF x > 0 /\ y > 0 /\ y > INT_MAX - x
    THEN ((x - INT_MAX) - 1) + ((y - INT_MAX) - 1)
    ELSE IF x < 0 /\ y < 0 /\ y < ((0 - INT_MAX) - 1) - x
         THEN ((x + INT_MAX) + 1) + ((y + INT_MAX) + 1)
         ELSE x + y

\* k * x in an int, for a small k >= 0
RECURSIVE IntTimes(_, _)
IntTimes(k, x) == IF k = 0 THEN 0 ELSE IntAdd(IntTimes(k - 1, x), x)

\* int amountOfRows = ((cardsInHand.size() - 1) / MAX_CARDS_PER_PRINT_ROW) + 1;
\* size() - 1 is unsigned: on an empty hand it is 2^64 - 1 or 2^32 - 1, the
\* quotient plus one is 3074457345618258603 (an int takes its low 32 bits,
\* 0xAAAAAAAB) or 715827883
amountOfRows(size, sizeBits) ==
    IF size > 0 THEN ((size - 1) \div MAX_CARDS_PER_PRINT_ROW) + 1
    ELSE IF sizeBits = 64 THEN 0 - 1431655765
    ELSE (INT_MAX \div 3) + 1

\* the values of rowOfCards in 1..amountOfRows that are followed
PrintedRows(rows) ==
    IF rows < 1 THEN {}
    ELSE (1..(IF rows < MaxPrintRows THEN rows ELSE MaxPrintRows))
         \cup ((IF rows > MaxPrintRows THEN rows - MaxPrintRows + 1 ELSE 1)..rows)

\* getSectionOfHand(start, end): the positions i - 1 of cardsInHand that are
\* read.  In "i <= cardsInHand.size()" the int i is converted to size_t, so
\* a negative i is above every size; position -1 stands for (size_t)-1.
getSectionOfHand(start, end, size) ==
    { i - 1 : i \in { j \in start..end : j >= 0 /\ j <= size } }

\* printHorizontal: the positions of cardsInHand read over the rows
printHorizontal(hand, sizeBits) ==
    UNION { LET end == IntTimes(MAX_CARDS_PER_PRINT_ROW, rowOfCards)
                start == IntAdd(IntAdd(end, 0 - MAX_CARDS_PER_PRINT_ROW), 1)
            IN  getSectionOfHand(start, end, Len(hand))
            : rowOfCards \in PrintedRows(amountOfRows(Len(hand), sizeBits)) }

\* sumOptimal: the indices handed to getCardAtIndex, i from 0 while
\* i < getSize()
sumOptimalIndices(hand) == { i \in 0..Len(hand) : i < Len(hand) }

\* the positions inside a hand
InsideHand(hand) == 0..(Len(hand) - 1)

\* a step of playRound after which printDealerAndPlayerHands runs: a card
\* was added to one of the hands
CardDealt ==
    \/ Len(dealerHand') = Len(dealerHand) + 1
    \/ Len(playerHand') = Len(playerHand) + 1

\* C26: in the game every index handed to getCardAtIndex and every position
\* read by getSectionOfHand, on any build, lies inside the hand, for both
\* hands after every deal; and no step removes the last card of a hand
\* (a hand changes only by one appended card or by being emptied when
\* playRound starts).
C26_IndexingInsideHand ==
    [][/\ CardDealt =>
            \A hand \in {dealerHand', playerHand'} :
                /\ sumOptimalIndices(hand) \subseteq InsideHand(hand)
                /\ \A sizeBits \in SizeWidths :
                       printHorizontal(hand, sizeBits) \subseteq InsideHand(hand)
       /\ pc' \notin {"crashed", "corrupted"}
       /\ \A pair \in {<<dealerHand, dealerHand'>>, <<playerHand, playerHand'>>} :
              \/ pair[2] = pair[1]
              \/ \E c \in RankCards : pair[2] = Append(pair[1], c)
              \/ pair[2] = <<>> /\ pc' = "bet"]_vars

\* C27: a round starts from two empty hands (while the bet is requested and
\* until the dealer's card is dealt), the dealer's single card comes before
\* the player's first and the player's first before the second; whenever
\* the hit-or-stand prompt is waiting the dealer holds exactly 1 card, the
\* player at least 2, and the player's optimal total is below 21.
C27_InitialDeal ==
    /\ pc \in {"bet", "dealDealer"} => playerHand = <<>> /\ dealerHand = <<>>
    /\ pc = "dealPlayer1" => Len(dealerHand) = 1 /\ playerHand = <<>>
    /\ pc = "dealPlayer2" => Len(dealerHand) = 1 /\ Len(playerHand) = 1
    /\ pc = "hitOrStand" =>
           Len(dealerHand) = 1 /\ Len(playerHand) >= 2 /\ PlayerSum < 21

C27_Witness ==
    pc = "hitOrStand" /\ roundsPlayed = 2 /\ Len(playerHand) = 2 /\ Len(dealerHand) = 1

\* C28: a step in which requestHitOrStand returns "hit" appends exactly one
\* card to the end of the player's hand, the cards held before staying in
\* front, and leaves the dealer's hand, the balance and the bet unchanged.
C28_HitAppendsOneCard ==
    [][(\E input \in HitStandInputs, r1, r2 \in RandSample : Hit(input, r1, r2)) =>
           /\ Len(playerHand') = Len(playerHand) + 1
           /\ SubSeq(playerHand', 1, Len(playerHand)) = playerHand
           /\ playerHand'[Len(playerHand')] \in RankCards
           /\ UNCHANGED <<dealerHand, playerMoney, thisRoundBet>>]_vars

C28_Witness ==
    pc = "hitOrStand" /\ Len(playerHand) = 3 /\ userInput = <<>> /\ roundsPlayed = 1

\* C29: a step in which requestHitOrStand returns "stand" leaves the prompt
\* for the dealer loop with both hands, the bet and the balance unchanged;
\* every step taken in the dealer loop appends one card to the dealer's
\* hand and changes neither the player's hand, the bet nor the balance,
\* and leads to the dealer loop again or to concludeRound.
C29_StandStartsDealerTurn ==
    [][/\ (\E input \in HitStandInputs : Stand(input)) =>
              /\ pc' = "dealerTurn"
              /\ UNCHANGED <<playerHand, dealerHand, playerMoney, thisRoundBet>>
       /\ pc = "dealerTurn" =>
              /\ pc' \in {"dealerTurn", "conclude"}
              /\ \E c \in RankCards : dealerHand' = Append(dealerHand, c)
              /\ UNCHANGED <<playerHand, playerMoney, thisRoundBet>>]_vars

C29_Witness ==
    pc = "conclude" /\ Len(dealerHand) = 3 /\ PlayerSum < 21 /\ Len(playerHand) = 2

\* C30: a step in which the hit-or-stand prompt reads a token other than
\* h, H, s, S changes neither hand, the balance nor the bet, and the prompt
\* keeps waiting.
C30_InvalidHitOrStandRetried ==
    [][/\ (\E input \in HitStandInputs : InvalidHitOrStand(input)) =>
              /\ pc' = "hitOrStand"
              /\ UNCHANGED <<playerHand, dealerHand, playerMoney, thisRoundBet>>
       /\ pc = "hitOrStand" /\ userInput' # <<>> =>
              /\ pc' = "hitOrStand"
              /\ userInput' \notin {<<"h">>, <<"H">>, <<"s">>, <<"S">>}
              /\ UNCHANGED <<playerHand, dealerHand, playerMoney, thisRoundBet>>]_vars

C30_Witness ==
    pc = "hitOrStand" /\ userInput = <<"q">> /\ Len(playerHand) = 3

\* C31: with both totals at most 21, a strictly higher player total is a
\* player win, a strictly higher dealer total is a dealer win that pays
\* nothing (the bankroll is its value before the bet minus the bet), and
\* equal totals have no winner (two totals of 21 of which exactly one is a
\* 2-card hand are left to the blackjack rows).
C31_ComparisonOfTotals ==
    Resolved /\ PlayerSum <= 21 /\ DealerSum <= 21 =>
        /\ PlayerSum > DealerSum => playerWon /\ ~dealerWon
        /\ DealerSum > PlayerSum =>
               /\ dealerWon /\ ~playerWon
               /\ playerMoney = shownBalance - thisRoundBet
        /\ PlayerSum = DealerSum
               /\ ~(PlayerSum = 21 /\ (Len(playerHand) = 2) # (Len(dealerHand) = 2))
               => ~playerWon /\ ~dealerWon

\* C32: a player total of 21 held in a hand of other than 2 cards against a
\* dealer total other than 21 is a plain player win, paid bet x 2 and not
\* bet x 2.5; and the blackjack flag is only ever set together with a
\* winner whose hand has exactly 2 cards and the total 21.
C32_ThreeCard21IsPlainWin ==
    Resolved =>
        /\ PlayerSum = 21 /\ Len(playerHand) # 2 /\ DealerSum # 21 =>
               /\ playerWon /\ ~dealerWon /\ ~wonWithBlackjack
               /\ resultShown = "won"
               /\ playerMoney = (shownBalance - thisRoundBet) + 2 * thisRoundBet
        /\ wonWithBlackjack =>
               \/ playerWon /\ Len(playerHand) = 2 /\ PlayerSum = 21
               \/ dealerWon /\ Len(dealerHand) = 2 /\ DealerSum = 21

C32_Witness ==
    /\ Resolved
    /\ PlayerSum = 21 /\ Len(playerHand) = 3
    /\ DealerSum > 21 /\ Len(dealerHand) = 3
    /\ playerMoney = shownBalance + thisRoundBet

C34_OversizedBetRejected ==
    [][/\ pc = "bet"
       /\ userInput' # <<>> /\ inputIsNumerical(userInput')
       /\ (stoi(userInput') = -1 \/ 2 * stoi(userInput') > playerMoney)
       => /\ pc' = "bet"
          /\ pc' # "aborted"
          /\ UNCHANGED <<playerMoney, thisRoundBet>>]_vars

\* C35: every hit raises the total of the player's hand with all Aces
\* valued 1 by at least 1, and that total is below 21 whenever a hit is
\* taken; a round whose bet has been accepted always reaches a call of
\* concludeRound when every prompt is answered with a valid decision,
\* whatever cards are drawn; and the step taken there computes the outcome.
C35_RoundIsResolved ==
    /\ [][/\ pc = "hitOrStand" /\ playerHand' # playerHand =>
               /\ HardTotal(playerHand) < 21
               /\ HardTotal(playerHand') >= HardTotal(playerHand) + 1
          /\ pc = "conclude" => Resolved']_vars
    /\ (pc = "dealDealer") ~> (pc = "conclude")

C35_Witness ==
    Resolved /\ Len(playerHand) = 11 /\ PlayerSum = 21 /\ HardTotal(playerHand) = 11

\* C36: whenever concludeRound runs, or has run, on a player total of 21 or
\* more, the dealer holds exactly the one card dealt at the start of the
\* round, with a total from 2 to 11; so no round is resolved with both
\* totals 21 or with a player 21 against a busted dealer.
C36_PlayerOn21MeetsOneCardDealer ==
    /\ (pc = "conclude" \/ Resolved) /\ PlayerSum >= 21 =>
           Len(dealerHand) = 1 /\ DealerSum \in 2..11
    /\ (pc = "conclude" \/ Resolved) =>
           /\ ~(PlayerSum = 21 /\ DealerSum = 21)
           /\ ~(PlayerSum = 21 /\ DealerSum > 21)

C36_Witness ==
    /\ pc = "conclude"
    /\ PlayerSum = 21 /\ Len(playerHand) = 3
    /\ Len(dealerHand) = 1 /\ DealerSum = 11

\* C37: the step of concludeRound leads to the new-round prompt or to the
\* end of the program, never back into playRound; concludeRound is entered
\* from the deal, the hit loop or the dealer loop only; the bankroll
\* changes only when a bet is accepted and in concludeRound; and once a
\* round's outcome is computed the bankroll stays and no hand receives a
\* card (both are emptied when the next round starts).
C37_ResolvedAndPaidOnce ==
    [][/\ pc = "conclude" => pc' \in {"newRound", "quit"} /\ Resolved'
       /\ pc' = "conclude" /\ pc # "conclude" =>
              pc \in {"dealPlayer2", "hitOrStand", "dealerTurn"}
       /\ playerMoney' # playerMoney =>
              \/ pc = "bet" /\ pc' = "dealDealer"
              \/ pc = "conclude"
       /\ pc \in {"newRound", "quit"} =>
              /\ playerMoney' = playerMoney
              /\ \/ playerHand' = playerHand /\ dealerHand' = dealerHand
                 \/ pc' = "bet" /\ playerHand' = <<>> /\ dealerHand' = <<>>]_vars

C37_Witness ==
    /\ pc = "newRound" /\ resultShown = "won" /\ roundsPlayed = 2
    /\ playerMoney = shownBalance + thisRoundBet

\* C38: the dealer's hand never holds more than 12 cards.
C38_DealerHandAtMostTwelve == Len(dealerHand) <= 12

C38_Witness ==
    pc = "conclude" /\ Len(dealerHand) = 12 /\ HardTotal(dealerHand) >= 17

\* C39: the program quits only from the launch menu, from the new-round
\* prompt, or out of concludeRound with a bankroll below 1; from the
\* accepted bet until concludeRound is called no step ends the program.
C39_QuitOnlyBetweenRounds ==
    [][/\ pc' = "quit" /\ pc # "quit" =>
              \/ pc = "launch"
              \/ pc = "newRound"
              \/ pc = "conclude" /\ playerMoney' < 2
       /\ pc \in {"dealDealer", "dealPlayer1", "dealPlayer2", "hitOrStand", "dealerTurn"} =>
              pc' \notin {"quit", "aborted"}]_vars

C39_Witness ==
    pc = "hitOrStand" /\ userInput = <<"q">> /\ roundsPlayed = 2 /\ Len(playerHand) = 2

\* C40: the bankroll, counted in halves, is a natural number in every
\* state; every bet is a whole number, so that one and a half times the bet
\* is a whole number of halves; and when concludeRound ends the program the
\* bankroll left is 0 or one half.
C40_HalfUnitBankroll ==
    /\ [](/\ playerMoney \in Nat
          /\ thisRoundBet \in Nat /\ thisRoundBet % 2 = 0
          /\ (3 * thisRoundBet) % 2 = 0)
    /\ [][pc = "conclude" /\ pc' = "quit" => playerMoney' \in {0, 1}]_vars

C40_Witness ==
    pc = "quit" /\ resultShown = "lost" /\ playerMoney = 1 /\ thisRoundBet = 22

====
